---- MODULE Spec2Model ----
(***************************************************************************)
(* Model of source/detectors.cpp: the detectors built on the inference     *)
(* engine (BaseDetection, FaceDetection, FacialLandmarksDetection), the    *)
(* loader Load::into with the two read() validations, and the latency      *)
(* timer (CallStat, Timer).                                                *)
(*                                                                         *)
(* One detector object is modelled per behaviour; `kind` says which class  *)
(* it is.  The inference engine is external: a request is "null" or        *)
(* "created", an inference is "idle", "running" or "ready", and the engine *)
(* fills the output blob with any detections when an inference completes.  *)
(* Engine calls are taken to succeed.  Real numbers are exact: a           *)
(* normalised coordinate is k / CoordDen, a confidence is an integer, and  *)
(* a smoothed duration is a pair <<num, exp>> standing for num / 10^exp.   *)
(***************************************************************************)
EXTENDS Integers, Sequences, FiniteSets, TLC

\* ------------------------------------------------------------------ bounds
MaxProposals == 2      \* proposals of the detection output (outputDims[2])
MaxConf == 2           \* confidences are 0 .. MaxConf
CoordDen == 4          \* normalised coordinates are 0/CoordDen .. CoordDen/CoordDen
MaxFrame == 5          \* frame widths and heights are 0 .. MaxFrame
MaxBatchBound == 2     \* maxBatch is 1 .. MaxBatchBound
MaxDims == 5           \* the output tensor has 2 .. MaxDims dimensions
MaxTime == 3           \* the clock reads 0 .. MaxTime
MaxCalls == 3          \* finishes of the timer, all names together

\* ------------------------------------------------------- program constants
ObjectSize == 7        \* the last dimension FaceDetection::read asks for
OutNum == 70           \* the out-size FacialLandmarksDetection::read asks for
BbEnlargeNum == 12     \* bb_enlarge_coefficient = 1.2 = BbEnlargeNum / BbEnlargeDen
BbEnlargeDen == 10
AlphaNum == 1          \* alpha = 0.1 = AlphaNum / AlphaDen
AlphaDen == 10

VARIABLES
  \* BaseDetection
  kind, pathToModel, maxBatch, isBatchDynamic, isAsync,
  enablingChecked, _enabled, net, plugin, request,
  \* the engine's side of the request
  reqStatus, reqBatch, inputBlob, outputBlob,
  \* FaceDetection
  detectionThreshold, enquedFrames, width, height, resultsFetched, results,
  maxProposalCount, objectSize, input, output,
  \* FacialLandmarksDetection
  enquedFaces,
  \* the model file pathToModel names, and the exception that left the last call
  network, lastError,
  \* the caller: its position, whether the process has ended, its last call, the
  \* engine calls that call made, and where it is between submitRequest and wait
  pc, crashed, lastOp, calls, phase, oob,
  \* the calls of FaceDetection so far: whether enqueue was called since the last
  \* submitRequest, and how often (up to 2) fetchResults has read the output blob
  \* since the last submitRequest that started an inference
  hist,
  \* Timer
  _timers, now, durs

baseVars == <<kind, pathToModel, maxBatch, isBatchDynamic, isAsync,
              enablingChecked, _enabled, net, plugin, request>>
engineVars == <<reqStatus, reqBatch, inputBlob, outputBlob>>
fdVars == <<detectionThreshold, enquedFrames, width, height, resultsFetched,
            results, maxProposalCount, objectSize, input, output>>
lmVars == <<enquedFaces>>
loadVars == <<network, lastError>>
callerVars == <<pc, crashed, lastOp, calls, phase, oob, hist>>
timerVars == <<_timers, now, durs>>
vars == <<baseVars, engineVars, fdVars, lmVars, loadVars, callerVars, timerVars>>

\* ----------------------------------------------------------------- helpers
\* C++ integer division and float-to-int conversion: towards zero.
TruncDiv(a, b) == IF a >= 0 THEN a \div b ELSE -((-a) \div b)

Max(a, b) == IF a >= b THEN a ELSE b

RECURSIVE SeqSum(_)
SeqSum(s) == IF s = <<>> THEN 0 ELSE Head(s) + SeqSum(Tail(s))

RECURSIVE Pow10(_)
Pow10(n) == IF n = 0 THEN 1 ELSE 10 * Pow10(n - 1)

\* ------------------------------------------------- images, blobs, networks
\* A cv::Mat is known by its size; the empty Mat stands for "nothing written".
NoImage == [cols |-> 0, rows |-> 0]
Frames == [cols : 1..MaxFrame, rows : 1..MaxFrame]
\* the frames and faces the callers of the lifecycle specification pass
SomeFrames == {[cols |-> 1, rows |-> 1], [cols |-> MaxFrame, rows |-> MaxFrame - 1]}

\* One row of the detection output: image_id, label, confidence and the
\* normalised corners, in CoordDen-ths.
ProposalsOver(coords) ==
  [image_id : {-1, 0}, label : {1}, confidence : 0..MaxConf,
   xmin : coords, ymin : coords, xmax : coords, ymax : coords]
\* the rows the engine writes in the lifecycle specification: the whole frame,
\* with the lowest or the highest confidence
SomeProposals ==
  {p \in ProposalsOver({0, CoordDen}) :
     /\ p.xmin = 0 /\ p.ymin = 0 /\ p.xmax = CoordDen /\ p.ymax = CoordDen
     /\ p.confidence \in {0, MaxConf}}

\* What an inference can leave in the output blob of this detector.
Blobs ==
  IF kind = "FaceDetection" THEN [1..maxProposalCount -> SomeProposals] ELSE {<<>>}

\* The metadata of the model file that read() looks at.
DimVals == {1, MaxProposals, ObjectSize}
DimsAll == UNION {[1..n -> DimVals] : n \in 2..MaxDims}
NetworksFD(dimsSet) ==
  [inputs : 0..2, outputs : 0..2, layerValid : {TRUE}, layerName : {"detection_out"},
   layerType : {"DetectionOutput", "Other"}, hasNumClasses : BOOLEAN,
   isFc : {FALSE}, outNum : {0}, dims : dimsSet]
NetworksLM ==
  [inputs : 0..2, outputs : 0..2, layerValid : BOOLEAN, layerName : {"align_fc3", "other"},
   layerType : {"FullyConnected", "Other"}, hasNumClasses : {FALSE},
   isFc : BOOLEAN, outNum : {OutNum, OutNum - 1}, dims : {<<1, OutNum>>}]
GoodDims == <<1, 1, MaxProposals, ObjectSize>>
\* the model files of the lifecycle specification: a well-formed one and one
\* with two inputs
SomeNetworks(k) ==
  IF k = "FaceDetection"
  THEN {n \in NetworksFD({GoodDims}) :
          n.outputs = 1 /\ n.layerType = "DetectionOutput" /\ n.hasNumClasses
          /\ n.inputs \in {1, 2}}
  ELSE {n \in NetworksLM :
          n.outputs = 1 /\ n.layerValid /\ n.layerName = "align_fc3"
          /\ n.layerType = "FullyConnected" /\ n.isFc /\ n.outNum = OutNum
          /\ n.inputs \in {1, 2}}
\* every model file, for the specification of read()
AllNetworks(k) == IF k = "FaceDetection" THEN NetworksFD(DimsAll) ELSE NetworksLM

\* ------------------------------------------------------------ construction
\* The state the constructors leave, for a face detector over one of the model
\* files fdNets or a landmarks detector over one of lmNets.  The constructor
\* does not initialise maxProposalCount and objectSize; they are not read
\* before read() has set them.
Constructed(fdNets, lmNets) ==
  /\ kind \in {"FaceDetection", "FacialLandmarksDetection"}
  /\ pathToModel \in {"", "model.xml"}
  /\ maxBatch \in (IF kind = "FaceDetection" THEN {1} ELSE 1..MaxBatchBound)
  /\ isBatchDynamic \in (IF kind = "FaceDetection" THEN {FALSE} ELSE BOOLEAN)
  /\ isAsync \in BOOLEAN
  /\ enablingChecked = FALSE /\ _enabled = FALSE
  /\ net = "unloaded" /\ plugin = "none" /\ request = "null"
  /\ reqStatus = "idle" /\ reqBatch = 0
  /\ inputBlob = [i \in 0..(maxBatch - 1) |-> NoImage]
  /\ outputBlob = <<>>
  /\ detectionThreshold = 1
  /\ enquedFrames = 0 /\ width = 0 /\ height = 0
  /\ resultsFetched = FALSE /\ results = <<>>
  /\ maxProposalCount = 0 /\ objectSize = 0 /\ input = "" /\ output = ""
  /\ enquedFaces = 0
  /\ network \in (IF kind = "FaceDetection" THEN fdNets ELSE lmNets) /\ lastError = ""
  /\ pc = "idle" /\ crashed = FALSE /\ lastOp = "constructor" /\ calls = <<>>
  /\ phase = "none" /\ oob = FALSE
  /\ hist = [pending |-> FALSE, reads |-> 0]

TimerConstructed == _timers = <<>> /\ now = 0 /\ durs = <<>>

Init ==
  /\ Constructed(SomeNetworks("FaceDetection"), SomeNetworks("FacialLandmarksDetection"))
  /\ TimerConstructed

\* ------------------------------------------------------------ BaseDetection
\* What enabled() returns: the cached flag, or on the first call whether a
\* model path was given.
enabled == IF enablingChecked THEN _enabled ELSE pathToModel # ""

\* The cache enabled() leaves behind.
enabledChecks == enablingChecked' = TRUE /\ _enabled' = enabled

\* The caller makes one call at a time, and none once the process has ended.
CanCall == pc = "idle" /\ ~crashed

\* BaseDetection::submitRequest with the two modes exchanged.
BaseDetection_submitRequest_modesSwapped(before) ==
  /\ enabledChecks
  /\ IF enabled /\ request # "null"
     THEN /\ phase' = "submitted"
          /\ IF ~isAsync
             THEN /\ calls' = before \o <<"StartAsync">>
                  /\ reqStatus' = "running"
                  /\ UNCHANGED outputBlob
             ELSE /\ calls' = before \o <<"Infer">>
                  /\ reqStatus' = "ready"
                  /\ outputBlob' \in Blobs
     ELSE /\ calls' = before
          /\ UNCHANGED <<phase, reqStatus, outputBlob>>

\* BaseDetection::submitRequest, after the engine calls `before` of the
\* overriding submitRequest: one StartAsync or one Infer on an enabled
\* detector with a request, nothing otherwise.  Infer returns with the result
\* ready and the output written; StartAsync leaves the inference running.
BaseDetection_submitRequest(before) ==
  /\ enabledChecks
  /\ IF enabled /\ request # "null"
     THEN /\ phase' = "submitted"
          /\ IF isAsync
             THEN /\ calls' = before \o <<"StartAsync">>
                  /\ reqStatus' = "running"
                  /\ UNCHANGED outputBlob
             ELSE /\ calls' = before \o <<"Infer">>
                  /\ reqStatus' = "ready"
                  /\ outputBlob' \in Blobs
     ELSE /\ calls' = before
          /\ UNCHANGED <<phase, reqStatus, outputBlob>>

\* BaseDetection::submitRequest called on its own.
SubmitBase ==
  /\ CanCall
  /\ BaseDetection_submitRequest(<<>>)
  /\ lastOp' = "BaseDetection::submitRequest" /\ lastError' = ""
  /\ UNCHANGED <<kind, pathToModel, maxBatch, isBatchDynamic, isAsync, net, plugin,
                 request, reqBatch, inputBlob, fdVars, lmVars, network, pc, crashed,
                 oob, hist, timerVars>>

\* BaseDetection::wait that returns without waiting for the engine.
BaseDetection_wait_noWait ==
  /\ CanCall
  /\ enabledChecks
  /\ calls' = <<>>
  /\ phase' = (IF phase = "submitted" THEN "waited" ELSE phase)
  /\ lastOp' = "wait" /\ lastError' = ""
  /\ UNCHANGED <<kind, pathToModel, maxBatch, isBatchDynamic, isAsync, net, plugin,
                 request, engineVars, fdVars, lmVars, network, pc, crashed, oob, hist,
                 timerVars>>

\* BaseDetection::wait: returns at once unless the detector is enabled, has a
\* request and is asynchronous; otherwise it enters the engine's Wait.
BaseDetection_wait ==
  /\ CanCall
  /\ enabledChecks
  /\ IF ~enabled \/ request = "null" \/ ~isAsync
     THEN /\ calls' = <<>>
          /\ phase' = (IF phase = "submitted" THEN "waited" ELSE phase)
          /\ UNCHANGED pc
     ELSE /\ calls' = <<"Wait">>
          /\ pc' = "waiting"
          /\ UNCHANGED phase
  /\ lastOp' = "wait" /\ lastError' = ""
  /\ UNCHANGED <<kind, pathToModel, maxBatch, isBatchDynamic, isAsync, net, plugin,
                 request, engineVars, fdVars, lmVars, network, crashed, oob, hist, timerVars>>

\* The engine's Wait(RESULT_READY) returns once no inference is running.
WaitReturns ==
  /\ pc = "waiting" /\ ~crashed
  /\ reqStatus # "running"
  /\ pc' = "idle"
  /\ phase' = (IF phase = "submitted" THEN "waited" ELSE phase)
  /\ UNCHANGED <<baseVars, engineVars, fdVars, lmVars, loadVars, crashed, lastOp,
                 calls, oob, hist, timerVars>>

\* The engine completes a running asynchronous inference and writes its output.
InferenceCompletes ==
  /\ ~crashed
  /\ reqStatus = "running"
  /\ reqStatus' = "ready"
  /\ outputBlob' \in Blobs
  /\ UNCHANGED <<baseVars, reqBatch, inputBlob, fdVars, lmVars, loadVars, callerVars,
                 timerVars>>

\* BaseDetection::printPerformanceCounts: nothing on a disabled detector;
\* otherwise request->GetPerformanceCounts(), with no test of request: on a
\* null request the call ends the process.
BaseDetection_printPerformanceCounts ==
  /\ CanCall
  /\ enabledChecks
  /\ IF ~enabled
     THEN calls' = <<>> /\ UNCHANGED crashed
     ELSE calls' = <<"GetPerformanceCounts">> /\ crashed' = (request = "null")
  /\ lastOp' = "printPerformanceCounts" /\ lastError' = ""
  /\ UNCHANGED <<kind, pathToModel, maxBatch, isBatchDynamic, isAsync, net, plugin,
                 request, engineVars, fdVars, lmVars, network, pc, phase, oob, hist,
                 timerVars>>

\* net.CreateInferRequestPtr() when there is no request yet: a fresh request,
\* idle, whose output buffer holds anything.
RequestCreated ==
  /\ request' = "created"
  /\ IF request = "null"
     THEN reqStatus' = "idle" /\ outputBlob' \in Blobs
     ELSE UNCHANGED <<reqStatus, outputBlob>>

\* RawBox with the frame's width and height exchanged.
RawBox_sidesSwapped(p, w, h) ==
  LET x == TruncDiv(p.xmin * h, CoordDen)
      y == TruncDiv(p.ymin * w, CoordDen)
  IN  [x |-> x, y |-> y,
       width |-> TruncDiv(p.xmax * h - x * CoordDen, CoordDen),
       height |-> TruncDiv(p.ymax * w - y * CoordDen, CoordDen)]

\* ------------------------------------------------------------ FaceDetection
\* The raw box of row p on a w x h frame: the float products and differences
\* converted to the int fields of the rectangle.
RawBox(p, w, h) ==
  LET x == TruncDiv(p.xmin * w, CoordDen)
      y == TruncDiv(p.ymin * h, CoordDen)
  IN  [x |-> x, y |-> y,
       width |-> TruncDiv(p.xmax * w - x * CoordDen, CoordDen),
       height |-> TruncDiv(p.ymax * h - y * CoordDen, CoordDen)]

\* EnlargedBox built on the smaller of the two sides.
EnlargedBox_minOfSizes(b) ==
  LET bb_center_x == b.x + TruncDiv(b.width, 2)
      bb_center_y == b.y + TruncDiv(b.height, 2)
      min_of_sizes == IF b.width <= b.height THEN b.width ELSE b.height
      bb_new == TruncDiv(BbEnlargeNum * min_of_sizes, BbEnlargeDen)
  IN  [x |-> bb_center_x - TruncDiv(bb_new, 2),
       y |-> bb_center_y - TruncDiv(bb_new, 2),
       width |-> bb_new, height |-> bb_new]

\* The square, enlarged box around the centre of raw box b.
EnlargedBox(b) ==
  LET bb_width == b.width
      bb_height == b.height
      bb_center_x == b.x + TruncDiv(bb_width, 2)
      bb_center_y == b.y + TruncDiv(bb_height, 2)
      max_of_sizes == Max(bb_width, bb_height)
      bb_new_width == TruncDiv(BbEnlargeNum * max_of_sizes, BbEnlargeDen)
      bb_new_height == TruncDiv(BbEnlargeNum * max_of_sizes, BbEnlargeDen)
  IN  [x |-> bb_center_x - TruncDiv(bb_new_width, 2),
       y |-> bb_center_y - TruncDiv(bb_new_height, 2),
       width |-> bb_new_width, height |-> bb_new_height]

\* The Result made of row p.
MakeResult(p, w, h) ==
  [label |-> p.label, confidence |-> p.confidence,
   location |-> EnlargedBox(RawBox(p, w, h))]

\* The loop of fetchResults from row i on, with the results so far in acc: a
\* row at or under the threshold is skipped, a row over it with a negative
\* image_id ends the loop, any other row is appended.
RECURSIVE FetchLoop(_, _, _)
FetchLoop(detections, i, acc) ==
  IF i > maxProposalCount THEN acc
  ELSE LET p == detections[i] IN
       IF p.confidence <= detectionThreshold THEN FetchLoop(detections, i + 1, acc)
       ELSE IF p.image_id < 0 THEN acc
       ELSE FetchLoop(detections, i + 1, Append(acc, MakeResult(p, width, height)))

\* FaceDetection::enqueue(frame).  CreateInferRequestPtr needs a loaded net:
\* on an enabled detector enqueue is called once Load::into has returned.
FaceDetection_enqueue(frame) ==
  /\ CanCall /\ kind = "FaceDetection"
  /\ enabledChecks
  /\ IF ~enabled
     THEN UNCHANGED <<request, reqStatus, outputBlob, width, height, inputBlob,
                      enquedFrames>>
     ELSE /\ net = "loaded"
          /\ RequestCreated
          /\ width' = frame.cols
          /\ height' = frame.rows
          /\ inputBlob' = [inputBlob EXCEPT ![0] = frame]
          /\ enquedFrames' = 1
  /\ calls' = (IF ~enabled THEN <<>>
               ELSE IF request = "null" THEN <<"CreateInferRequestPtr", "GetBlob">>
               ELSE <<"GetBlob">>)
  /\ lastOp' = "enqueue" /\ lastError' = ""
  /\ hist' = [hist EXCEPT !.pending = TRUE]
  /\ UNCHANGED <<kind, pathToModel, maxBatch, isBatchDynamic, isAsync, net, plugin,
                 reqBatch, detectionThreshold, resultsFetched, results,
                 maxProposalCount, objectSize, input, output, lmVars, network,
                 pc, crashed, phase, oob, timerVars>>

\* FaceDetection::submitRequest that forgets to clear enquedFrames.
FaceDetection_submitRequest_keepsFrame ==
  /\ CanCall /\ kind = "FaceDetection"
  /\ IF enquedFrames = 0
     THEN /\ calls' = <<>>
          /\ UNCHANGED <<enablingChecked, _enabled, reqStatus, outputBlob, phase,
                         enquedFrames, resultsFetched, results>>
     ELSE /\ UNCHANGED enquedFrames
          /\ resultsFetched' = FALSE
          /\ results' = <<>>
          /\ BaseDetection_submitRequest(<<>>)
  /\ lastOp' = "submitRequest" /\ lastError' = ""
  /\ hist' = [pending |-> FALSE, reads |-> IF calls' = <<>> THEN hist.reads ELSE 0]
  /\ UNCHANGED <<kind, pathToModel, maxBatch, isBatchDynamic, isAsync, net, plugin,
                 request, reqBatch, inputBlob, detectionThreshold, width, height,
                 maxProposalCount, objectSize, input, output, lmVars, network,
                 pc, crashed, oob, timerVars>>

\* FaceDetection::submitRequest
FaceDetection_submitRequest ==
  /\ CanCall /\ kind = "FaceDetection"
  /\ IF enquedFrames = 0
     THEN /\ calls' = <<>>
          /\ UNCHANGED <<enablingChecked, _enabled, reqStatus, outputBlob, phase,
                         enquedFrames, resultsFetched, results>>
     ELSE /\ enquedFrames' = 0
          /\ resultsFetched' = FALSE
          /\ results' = <<>>
          /\ BaseDetection_submitRequest(<<>>)
  /\ lastOp' = "submitRequest" /\ lastError' = ""
  /\ hist' = [pending |-> FALSE, reads |-> IF calls' = <<>> THEN hist.reads ELSE 0]
  /\ UNCHANGED <<kind, pathToModel, maxBatch, isBatchDynamic, isAsync, net, plugin,
                 request, reqBatch, inputBlob, detectionThreshold, width, height,
                 maxProposalCount, objectSize, input, output, lmVars, network,
                 pc, crashed, oob, timerVars>>

\* FaceDetection::fetchResults.  The output buffer read while the inference
\* is still running holds anything; request->GetBlob on a null request ends
\* the process.
FaceDetection_fetchResults ==
  /\ CanCall /\ kind = "FaceDetection"
  /\ enabledChecks
  /\ IF ~enabled
     THEN /\ calls' = <<>>
          /\ UNCHANGED <<results, resultsFetched, crashed>>
     ELSE IF resultsFetched
     THEN /\ calls' = <<>>
          /\ results' = <<>>
          /\ UNCHANGED <<resultsFetched, crashed>>
     ELSE /\ resultsFetched' = TRUE
          /\ calls' = <<"GetBlob">>
          /\ IF request = "null"
             THEN crashed' = TRUE /\ results' = <<>>
             ELSE /\ UNCHANGED crashed
                  /\ \E detections \in (IF reqStatus = "running" THEN Blobs
                                        ELSE {outputBlob}) :
                       results' = FetchLoop(detections, 1, <<>>)
  /\ lastOp' = "fetchResults" /\ lastError' = ""
  /\ hist' = [hist EXCEPT !.reads = IF calls' = <<>> THEN @ ELSE IF @ = 0 THEN 1 ELSE 2]
  /\ UNCHANGED <<kind, pathToModel, maxBatch, isBatchDynamic, isAsync, net, plugin,
                 request, engineVars, detectionThreshold, enquedFrames, width, height,
                 maxProposalCount, objectSize, input, output, lmVars, network,
                 pc, phase, oob, timerVars>>

\* ------------------------------------------------- FacialLandmarksDetection
\* FacialLandmarksDetection::submitRequest
FacialLandmarksDetection_submitRequest ==
  /\ CanCall /\ kind = "FacialLandmarksDetection"
  /\ IF enquedFaces = 0
     THEN /\ calls' = <<>>
          /\ UNCHANGED <<enablingChecked, _enabled, reqStatus, outputBlob, phase,
                         reqBatch, enquedFaces>>
     ELSE /\ reqBatch' = (IF isBatchDynamic THEN enquedFaces ELSE reqBatch)
          /\ BaseDetection_submitRequest(IF isBatchDynamic THEN <<"SetBatch">> ELSE <<>>)
          /\ enquedFaces' = 0
  /\ lastOp' = "submitRequest" /\ lastError' = ""
  /\ UNCHANGED <<kind, pathToModel, maxBatch, isBatchDynamic, isAsync, net, plugin,
                 request, inputBlob, fdVars, network, pc, crashed, oob, hist, timerVars>>

\* FacialLandmarksDetection::enqueue without the check against maxBatch.
FacialLandmarksDetection_enqueue_noLimit(face) ==
  /\ CanCall /\ kind = "FacialLandmarksDetection"
  /\ enabledChecks
  /\ IF ~enabled \/ enquedFaces > MaxBatchBound
     THEN /\ calls' = <<>>
          /\ UNCHANGED <<request, reqStatus, outputBlob, inputBlob, enquedFaces>>
     ELSE /\ net = "loaded"
          /\ RequestCreated
          /\ inputBlob' = [i \in DOMAIN inputBlob \cup {enquedFaces} |->
                             IF i = enquedFaces THEN face ELSE inputBlob[i]]
          /\ enquedFaces' = enquedFaces + 1
          /\ calls' = (IF request = "null" THEN <<"CreateInferRequestPtr", "GetBlob">>
                       ELSE <<"GetBlob">>)
  /\ lastOp' = "enqueue" /\ lastError' = ""
  /\ UNCHANGED <<kind, pathToModel, maxBatch, isBatchDynamic, isAsync, net, plugin,
                 reqBatch, fdVars, network, pc, crashed, phase, oob, hist, timerVars>>

\* FacialLandmarksDetection::enqueue(face), on a loaded net like
\* FaceDetection::enqueue.
FacialLandmarksDetection_enqueue(face) ==
  /\ CanCall /\ kind = "FacialLandmarksDetection"
  /\ enabledChecks
  /\ IF ~enabled \/ enquedFaces = maxBatch
     THEN /\ calls' = <<>>
          /\ UNCHANGED <<request, reqStatus, outputBlob, inputBlob, enquedFaces>>
     ELSE /\ net = "loaded"
          /\ RequestCreated
          /\ inputBlob' = [inputBlob EXCEPT ![enquedFaces] = face]
          /\ enquedFaces' = enquedFaces + 1
          /\ calls' = (IF request = "null" THEN <<"CreateInferRequestPtr", "GetBlob">>
                       ELSE <<"GetBlob">>)
  /\ lastOp' = "enqueue" /\ lastError' = ""
  /\ UNCHANGED <<kind, pathToModel, maxBatch, isBatchDynamic, isAsync, net, plugin,
                 reqBatch, fdVars, network, pc, crashed, phase, oob, hist, timerVars>>

\* FacialLandmarksDetection::operator[](idx): const, with no call of enabled()
\* and no test of request.  It calls request->GetBlob twice and returns a copy
\* of the landmarks of face idx, which the detector does not keep; on a null
\* request the first GetBlob ends the process.
FacialLandmarksDetection_operatorIndex(idx) ==
  /\ CanCall /\ kind = "FacialLandmarksDetection"
  /\ idx \in 0..(maxBatch - 1)
  /\ IF request = "null"
     THEN calls' = <<"GetBlob">> /\ crashed' = TRUE
     ELSE calls' = <<"GetBlob", "GetBlob">> /\ UNCHANGED crashed
  /\ lastOp' = "operator[]" /\ lastError' = ""
  /\ UNCHANGED <<baseVars, engineVars, fdVars, lmVars, network, pc, phase, oob, hist,
                 timerVars>>

\* ------------------------------------------------------ read and Load::into
\* What a call of read() leaves: the logic_error thrown ("" when it returns),
\* whether the process ended, whether an index outside the tensor's
\* dimensions was read, and the members as read() left them.
Outcome(err, o, mpc, os, i, ob, cr) ==
  [err |-> err, output |-> o, maxProposalCount |-> mpc, objectSize |-> os,
   input |-> i, oob |-> ob, crashed |-> cr]

\* outputDims[i] (i from 0): the dimension, or, past the end of the vector,
\* whatever the memory holds (any of DimVals).
DimRead(dims, i) == IF i < Len(dims) THEN {dims[i + 1]} ELSE DimVals

\* FaceDetection::read on model file n: the outcomes it can have.  The
\* dimensions 2 and 3 are read before the number of dimensions is checked; a
\* read past the end yields any value or ends the process.
FaceDetection_read(n) ==
  IF n.inputs # 1
  THEN {Outcome("Face Detection network should have only one input",
                output, maxProposalCount, objectSize, input, FALSE, FALSE)}
  ELSE IF n.outputs # 1
  THEN {Outcome("Face Detection network should have only one output",
                output, maxProposalCount, objectSize, input, FALSE, FALSE)}
  ELSE IF n.layerType # "DetectionOutput"
  THEN {Outcome("Face Detection network output layer should be DetectionOutput",
                n.layerName, maxProposalCount, objectSize, input, FALSE, FALSE)}
  ELSE IF ~n.hasNumClasses
  THEN {Outcome("Face Detection network output layer should have num_classes integer attribute",
                n.layerName, maxProposalCount, objectSize, input, FALSE, FALSE)}
  ELSE LET past == Len(n.dims) < 4 IN
       {Outcome(IF os # ObjectSize
                THEN "Face Detection network output layer should have 7 as a last dimension"
                ELSE IF Len(n.dims) # 4
                THEN "Face Detection network output dimensions not compatible shoulld be 4"
                ELSE "",
                n.layerName, mpc, os,
                IF os = ObjectSize /\ Len(n.dims) = 4 THEN "data" ELSE input,
                past, FALSE) :
          mpc \in DimRead(n.dims, 2), os \in DimRead(n.dims, 3)}
       \cup (IF past
             THEN {Outcome("", n.layerName, maxProposalCount, objectSize, input,
                           TRUE, TRUE)}
             ELSE {})

\* FacialLandmarksDetection::read on model file n.  Its last assignment,
\* _enabled = true, changes nothing: Load::into calls read() only when
\* enabled() has returned true.
FacialLandmarksDetection_read(n) ==
  IF n.inputs # 1
  THEN {Outcome("Facial Landmarks Estimation network should have only one input",
                output, maxProposalCount, objectSize, input, FALSE, FALSE)}
  ELSE IF n.outputs # 1
  THEN {Outcome("Facial Landmarks Estimation network should have only one output",
                output, maxProposalCount, objectSize, "data", FALSE, FALSE)}
  ELSE IF ~n.layerValid
  THEN {Outcome("Layer pointer is invalid",
                output, maxProposalCount, objectSize, "data", FALSE, FALSE)}
  ELSE IF n.layerName # "align_fc3"
  THEN {Outcome("Facial Landmarks Estimation network output layer unknown",
                output, maxProposalCount, objectSize, "data", FALSE, FALSE)}
  ELSE IF n.layerType # "FullyConnected"
  THEN {Outcome("Facial Landmarks Estimation network output layer has invalid type",
                output, maxProposalCount, objectSize, "data", FALSE, FALSE)}
  ELSE IF ~n.isFc
  THEN {Outcome("Fully connected layer is not valid",
                output, maxProposalCount, objectSize, "data", FALSE, FALSE)}
  ELSE IF n.outNum # OutNum
  THEN {Outcome("Facial Landmarks Estimation network output layer has invalid out-size",
                output, maxProposalCount, objectSize, "data", FALSE, FALSE)}
  ELSE {Outcome("", output, maxProposalCount, objectSize, "data", FALSE, FALSE)}

read(n) ==
  IF kind = "FaceDetection" THEN FaceDetection_read(n)
  ELSE FacialLandmarksDetection_read(n)

\* Load::into that assigns the net and the plugin whatever read() did.
Load_into_assignsAnyway ==
  /\ CanCall
  /\ enabledChecks
  /\ IF ~enabled
     THEN /\ calls' = <<>> /\ lastError' = ""
          /\ UNCHANGED <<net, plugin, output, maxProposalCount, objectSize, input,
                         oob, crashed>>
     ELSE \E r \in read(network) :
            /\ output' = r.output
            /\ maxProposalCount' = r.maxProposalCount
            /\ objectSize' = r.objectSize
            /\ input' = r.input
            /\ oob' = r.oob
            /\ crashed' = r.crashed
            /\ lastError' = r.err
            /\ net' = "loaded" /\ plugin' = "plg"
            /\ calls' = <<"read", "LoadNetwork">>
  /\ lastOp' = "into"
  /\ UNCHANGED <<kind, pathToModel, maxBatch, isBatchDynamic, isAsync, request,
                 engineVars, detectionThreshold, enquedFrames, width, height,
                 resultsFetched, results, lmVars, network, pc, phase, hist, timerVars>>

\* Load::into: on an enabled detector, read() and then LoadNetwork; the net
\* and the plugin are assigned only when read() has returned.
Load_into ==
  /\ CanCall
  /\ enabledChecks
  /\ IF ~enabled
     THEN /\ calls' = <<>> /\ lastError' = ""
          /\ UNCHANGED <<net, plugin, output, maxProposalCount, objectSize, input,
                         oob, crashed>>
     ELSE \E r \in read(network) :
            /\ output' = r.output
            /\ maxProposalCount' = r.maxProposalCount
            /\ objectSize' = r.objectSize
            /\ input' = r.input
            /\ oob' = r.oob
            /\ crashed' = r.crashed
            /\ lastError' = r.err
            /\ IF r.err = "" /\ ~r.crashed
               THEN /\ net' = "loaded" /\ plugin' = "plg"
                    /\ calls' = <<"read", "LoadNetwork">>
               ELSE /\ UNCHANGED <<net, plugin>>
                    /\ calls' = <<"read">>
  /\ lastOp' = "into"
  /\ UNCHANGED <<kind, pathToModel, maxBatch, isBatchDynamic, isAsync, request,
                 engineVars, detectionThreshold, enquedFrames, width, height,
                 resultsFetched, results, lmVars, network, pc, phase, hist, timerVars>>

\* ------------------------------------------------------- CallStat and Timer
TimerNames == {"detection", "visualization"}

\* CallStat::CallStat; the smoothed duration -1.0 is <<-1, 0>>, and the start
\* time is the clock's epoch until setStartTime has run.
CallStat ==
  [_number_of_calls |-> 0, _total_duration |-> 0, _last_call_duration |-> 0,
   _smoothed_duration |-> <<-1, 0>>, _last_call_start |-> 0]

\* CallStat::calculateDuration without the first call's initialisation of
\* the smoothed duration.
CallStat_calculateDuration_noFirstCall(c, t) ==
  LET d == t - c._last_call_start
      sm == c._smoothed_duration
  IN  [c EXCEPT !._last_call_duration = d,
                !._number_of_calls = @ + 1,
                !._total_duration = @ + d,
                !._smoothed_duration =
                   <<sm[1] * (AlphaDen - AlphaNum) + d * AlphaNum * Pow10(sm[2]),
                     sm[2] + 1>>]

\* CallStat::calculateDuration at time t: with s the smoothed duration so
\* far, or the last duration d when s is negative, the new one is
\* s * (1 - alpha) + d * alpha, that is (9 * num + d * 10^exp) / 10^(exp + 1).
CallStat_calculateDuration(c, t) ==
  LET d == t - c._last_call_start
      sm == IF c._smoothed_duration[1] < 0 THEN <<d, 0>> ELSE c._smoothed_duration
  IN  [c EXCEPT !._last_call_duration = d,
                !._number_of_calls = @ + 1,
                !._total_duration = @ + d,
                !._smoothed_duration =
                   <<sm[1] * (AlphaDen - AlphaNum) + d * AlphaNum * Pow10(sm[2]),
                     sm[2] + 1>>]

\* What the timer leaves alone: the detector and its caller.
detectorVars == <<baseVars, engineVars, fdVars, lmVars, network, pc, crashed, calls,
                  phase, oob, hist>>

\* Timer::start(name): a new CallStat for a new name, then setStartTime.
Timer_start(name) ==
  /\ ~crashed
  /\ _timers' = [n \in DOMAIN _timers \cup {name} |->
                   IF n = name
                   THEN [(IF name \in DOMAIN _timers THEN _timers[name] ELSE CallStat)
                           EXCEPT !._last_call_start = now]
                   ELSE _timers[n]]
  /\ durs' = [n \in DOMAIN durs \cup {name} |->
                IF n \in DOMAIN durs THEN durs[n] ELSE <<>>]
  /\ lastOp' = "start" /\ lastError' = ""
  /\ UNCHANGED <<detectorVars, now>>

\* All finishes so far, of the names in ns.
RECURSIVE CallsOf(_)
CallsOf(ns) ==
  IF ns = {} THEN 0
  ELSE LET n == CHOOSE x \in ns : TRUE
       IN  _timers[n]._number_of_calls + CallsOf(ns \ {n})

Finishes == CallsOf(DOMAIN _timers)

\* Timer::finish(name): operator[] throws for an unknown name; otherwise
\* calculateDuration on the name's CallStat.
Timer_finish(name) ==
  /\ ~crashed
  /\ Finishes < MaxCalls
  /\ IF name \notin DOMAIN _timers
     THEN /\ lastError' = "No timer with name"
          /\ UNCHANGED <<_timers, durs>>
     ELSE /\ lastError' = ""
          /\ _timers' = [_timers EXCEPT ![name] = CallStat_calculateDuration(@, now)]
          /\ durs' = [durs EXCEPT ![name] = Append(@, now - _timers[name]._last_call_start)]
  /\ lastOp' = "finish"
  /\ UNCHANGED <<detectorVars, now>>

\* The clock moves on.
Tick ==
  /\ now < MaxTime
  /\ now' = now + 1
  /\ UNCHANGED <<detectorVars, loadVars, lastOp, _timers, durs>>

InitTimer ==
  /\ Constructed(SomeNetworks("FaceDetection"), SomeNetworks("FacialLandmarksDetection"))
  /\ kind = "FaceDetection" /\ pathToModel = "" /\ ~isAsync /\ network.inputs = 1
  /\ TimerConstructed

NextTimer ==
  \/ \E name \in TimerNames : Timer_start(name)
  \/ \E name \in TimerNames : Timer_finish(name)
  \/ Tick

SpecTimer == InitTimer /\ [][NextTimer]_vars

\* ------------------------------------------------------------ specification
Next ==
  \/ Load_into
  \/ \E frame \in SomeFrames : FaceDetection_enqueue(frame)
  \/ FaceDetection_submitRequest
  \/ FaceDetection_fetchResults
  \/ \E face \in SomeFrames : FacialLandmarksDetection_enqueue(face)
  \/ FacialLandmarksDetection_submitRequest
  \/ \E idx \in 0..(MaxBatchBound - 1) : FacialLandmarksDetection_operatorIndex(idx)
  \/ BaseDetection_wait
  \/ BaseDetection_printPerformanceCounts
  \/ WaitReturns
  \/ InferenceCompletes

Spec == Init /\ [][Next]_vars

\* The detector with BaseDetection::submitRequest also called on its own.
NextBase == Next \/ SubmitBase

SpecBase == Init /\ [][NextBase]_vars

\* ------------------------------------------------------------------ claims
\* The members of a detector other than the cache of enabled(), and the
\* engine's side of its request.
detectorState ==
  <<kind, pathToModel, maxBatch, isBatchDynamic, isAsync, net, plugin, request,
    engineVars, fdVars, lmVars>>

InferenceStarts == {"StartAsync", "Infer"}
StartsIn(cs) == Cardinality({i \in DOMAIN cs : cs[i] \in InferenceStarts})

\* C1: a call of BaseDetection::submitRequest on a detector with a non-empty
\* model path and a request makes exactly one engine call that starts an
\* inference, StartAsync (the inference is then running) when isAsync and
\* Infer (the result is then ready) otherwise; on a detector with an empty
\* model path or no request it makes no engine call and leaves every member
\* and the request as they were, apart from the cache of enabled(), which
\* goes on returning the same value.
C1_SubmitStartsOneInference ==
  [][SubmitBase =>
       IF pathToModel # "" /\ request # "null"
       THEN /\ calls' = <<IF isAsync THEN "StartAsync" ELSE "Infer">>
            /\ reqStatus' = (IF isAsync THEN "running" ELSE "ready")
       ELSE /\ calls' = <<>>
            /\ UNCHANGED detectorState
            /\ enabled' = enabled]_vars

C1_Witness ==
  /\ lastOp = "BaseDetection::submitRequest"
  /\ calls = <<"StartAsync">> /\ reqStatus = "running"

\* C1 as first stated: on a detector with an empty model path or no request,
\* submitRequest starts no inference and changes no state at all.
C1_SubmitChangesNoState ==
  [][SubmitBase /\ ~(pathToModel # "" /\ request # "null") =>
       /\ calls' = <<>>
       /\ UNCHANGED <<detectorState, enablingChecked, _enabled>>]_vars

\* C2: once submitRequest and then wait have returned, the inference that
\* submitRequest started is complete; in synchronous mode it is complete as
\* soon as submitRequest returns and wait makes no engine call; the caller is
\* inside the engine's Wait only on an enabled, asynchronous detector with a
\* request, and leaves it only when the result is ready.
C2_WaitedMeansReady ==
  /\ phase = "waited" => reqStatus = "ready"
  /\ phase = "submitted" /\ ~isAsync => reqStatus = "ready"
  /\ lastOp = "wait" /\ ~isAsync => calls = <<>>
  /\ pc = "waiting" => pathToModel # "" /\ request # "null" /\ isAsync

C2_Witness ==
  /\ isAsync /\ phase = "waited" /\ lastOp = "wait" /\ calls = <<"Wait">>
  /\ pc = "idle" /\ reqStatus = "ready"

\* The rows of an output that come before the first row with a negative
\* image_id.
RECURSIVE BeforeFirstNegative(_)
BeforeFirstNegative(rows) ==
  IF rows = <<>> \/ Head(rows).image_id < 0 THEN <<>>
  ELSE <<Head(rows)>> \o BeforeFirstNegative(Tail(rows))

OverThreshold(p) == p.confidence > detectionThreshold

\* C8: after fetchResults has read an output, results holds, in order, the
\* rows before the first negative image_id whose confidence is over the
\* threshold, and nothing else.
C8_ResultsStopAtFirstNegative ==
  [][FaceDetection_fetchResults /\ calls' = <<"GetBlob">> /\ ~crashed'
       /\ reqStatus = "ready"
     => LET kept == SelectSeq(BeforeFirstNegative(outputBlob), OverThreshold)
        IN  results' = [i \in 1..Len(kept) |-> MakeResult(kept[i], width, height)]]_vars

\* C9: FaceDetection::submitRequest starts an inference only when enqueue was
\* called since the previous submitRequest, and then the frame is no longer
\* pending; without such an enqueue it makes no engine call and leaves
\* results and resultsFetched as they were.  After a submitRequest that
\* started an inference, the first fetchResults reads the output blob, and
\* every later one before the next such submitRequest reads nothing and
\* leaves results empty.
C9_OneInferencePerFrameOneReadPerInference ==
  [][/\ FaceDetection_submitRequest =>
          /\ StartsIn(calls') <= 1
          /\ StartsIn(calls') = 1 => hist.pending /\ enquedFrames' = 0
          /\ ~hist.pending => calls' = <<>> /\ UNCHANGED <<results, resultsFetched>>
     /\ FaceDetection_fetchResults /\ phase # "none" /\ pathToModel # "" =>
          /\ hist.reads = 0 => calls' = <<"GetBlob">>
          /\ hist.reads > 0 => calls' = <<>> /\ results' = <<>>
          /\ hist'.reads <= 1]_vars

C9_Witness ==
  /\ kind = "FaceDetection" /\ lastOp = "fetchResults" /\ phase # "none"
  /\ hist.reads = 1 /\ calls = <<>> /\ results = <<>> /\ resultsFetched

\* C10: enquedFaces stays within 0 .. maxBatch; enqueue on a full batch
\* changes nothing, any other enqueue on an enabled detector writes the face
\* at slot enquedFaces and adds one; submitRequest with faces enqueued sets
\* the dynamic batch to their number (when isBatchDynamic) before it starts
\* the inference and leaves enquedFaces 0; a disabled detector keeps
\* enquedFaces 0 and starts no inference.
C10_EnquedFacesWithinBatch ==
  [][/\ enquedFaces' \in 0..maxBatch
     /\ \A face \in SomeFrames :
          FacialLandmarksDetection_enqueue(face) =>
            IF pathToModel = "" THEN UNCHANGED detectorState
            ELSE IF enquedFaces = maxBatch
            THEN UNCHANGED <<detectorState, enablingChecked, _enabled>>
            ELSE /\ inputBlob' = [inputBlob EXCEPT ![enquedFaces] = face]
                 /\ enquedFaces' = enquedFaces + 1
     /\ FacialLandmarksDetection_submitRequest /\ enquedFaces > 0 =>
          /\ enquedFaces' = 0
          /\ StartsIn(calls') = 1 /\ calls'[Len(calls')] \in InferenceStarts
          /\ isBatchDynamic => reqBatch' = enquedFaces /\ calls'[1] = "SetBatch"
          /\ ~isBatchDynamic => UNCHANGED reqBatch /\ Len(calls') = 1
     /\ pathToModel = "" => enquedFaces' = 0 /\ StartsIn(calls') = 0]_vars

C10_Witness ==
  /\ kind = "FacialLandmarksDetection" /\ lastOp = "submitRequest"
  /\ isBatchDynamic /\ reqBatch = MaxBatchBound /\ enquedFaces = 0
  /\ inputBlob[MaxBatchBound - 1] # NoImage

\* The engine calls made through request.
RequestAccesses ==
  {"GetBlob", "SetBatch", "StartAsync", "Infer", "Wait", "GetPerformanceCounts"}

\* C11: on a detector with a non-empty model path that Load::into has loaded,
\* whatever enqueue, submitRequest, wait, fetchResults, printPerformanceCounts
\* and operator[] calls were made, the last call made an engine call through
\* request only with request created (by an enqueue), never on a null request.
C11_RequestUsedOnlyWhenCreated ==
  pathToModel # "" /\ net = "loaded" =>
    \A i \in DOMAIN calls : calls[i] \in RequestAccesses => request # "null"

\* -------------------------------------------- specification of the geometry
\* A model file whose output has one row.
OneRowNetwork ==
  [inputs |-> 1, outputs |-> 1, layerValid |-> TRUE, layerName |-> "detection_out",
   layerType |-> "DetectionOutput", hasNumClasses |-> TRUE, isFc |-> FALSE,
   outNum |-> 0, dims |-> <<1, 1, 1, ObjectSize>>]

\* A synchronous face detector right after into, enqueue(frame) and
\* submitRequest: any frame, and one accepted row with any corners.
InitBox ==
  /\ kind = "FaceDetection" /\ pathToModel = "model.xml" /\ maxBatch = 1
  /\ isBatchDynamic = FALSE /\ isAsync = FALSE
  /\ enablingChecked = TRUE /\ _enabled = TRUE
  /\ net = "loaded" /\ plugin = "plg" /\ request = "created"
  /\ reqStatus = "ready" /\ reqBatch = 0
  /\ \E frame \in Frames :
       inputBlob = [i \in {0} |-> frame] /\ width = frame.cols /\ height = frame.rows
  /\ outputBlob \in {<<p>> : p \in {q \in ProposalsOver(0..CoordDen) :
                                      q.image_id = 0 /\ q.confidence = MaxConf}}
  /\ detectionThreshold = 1
  /\ enquedFrames = 0 /\ resultsFetched = FALSE /\ results = <<>>
  /\ maxProposalCount = 1 /\ objectSize = ObjectSize
  /\ input = "data" /\ output = "detection_out"
  /\ enquedFaces = 0
  /\ network = OneRowNetwork /\ lastError = ""
  /\ pc = "idle" /\ crashed = FALSE /\ lastOp = "submitRequest" /\ calls = <<"Infer">>
  /\ phase = "submitted" /\ oob = FALSE
  /\ hist = [pending |-> FALSE, reads |-> 0]
  /\ TimerConstructed

NextBox == FaceDetection_fetchResults

SpecBox == InitBox /\ [][NextBox]_vars

\* q is a / b rounded towards zero (b > 0).
IsTruncQuot(q, a, b) ==
  IF a >= 0 THEN b * q <= a /\ a < b * (q + 1)
  ELSE b * q >= a /\ a > b * (q - 1)

Halves == (0 - 2 * MaxFrame)..(2 * MaxFrame)

\* v / 2 in integer division: the one q that is v / 2 rounded towards zero.
HalfOf(v) == CHOOSE q \in Halves : IsTruncQuot(q, v, 2)

\* C3 as first stated: every box in results lies within the frame.
C3_BoxesClampedToFrame ==
  \A i \in DOMAIN results :
    LET r == results[i].location IN
      r.x >= 0 /\ r.y >= 0 /\ r.x + r.width <= width /\ r.y + r.height <= height

\* C3: the boxes in results are not clamped to the frame, but, for corners
\* within [0, 1], the centre of every box (x + width / 2, y + height / 2, in
\* integer division) lies within the frame recorded by enqueue.
C3_BoxCentresWithinFrame ==
  \A i \in DOMAIN results :
    LET r == results[i].location IN
      /\ 0 <= r.x + HalfOf(r.width) /\ r.x + HalfOf(r.width) <= width
      /\ 0 <= r.y + HalfOf(r.height) /\ r.y + HalfOf(r.height) <= height

C3_Witness ==
  /\ lastOp = "fetchResults" /\ Len(results) = 1
  /\ outputBlob[1].xmin < outputBlob[1].xmax /\ outputBlob[1].ymin < outputBlob[1].ymax
  /\ results[1].location.x < 0
  /\ results[1].location.y + results[1].location.height > height

\* C4: the box stored for an accepted row with raw box (x, y, w, h) is a
\* square of side 1.2 * max(w, h) rounded towards zero, whose top-left corner
\* is (cx - side / 2, cy - side / 2) for cx = x + w / 2 and cy = y + h / 2 in
\* integer division; for w, h >= 0 it is at least as wide and as high as the
\* raw box.
C4_EnlargedSquareAroundCentre ==
  lastOp = "fetchResults" /\ results # <<>> =>
    LET b == RawBox(outputBlob[1], width, height)
        r == results[1].location
        m == IF b.width >= b.height THEN b.width ELSE b.height
    IN  /\ Len(results) = 1
        /\ r.width = r.height
        /\ IsTruncQuot(r.width, BbEnlargeNum * m, BbEnlargeDen)
        /\ r.x = (b.x + HalfOf(b.width)) - HalfOf(r.width)
        /\ r.y = (b.y + HalfOf(b.height)) - HalfOf(r.height)
        /\ b.width >= 0 /\ b.height >= 0 => r.width >= b.width /\ r.height >= b.height

C4_Witness ==
  /\ lastOp = "fetchResults" /\ Len(results) = 1
  /\ RawBox(outputBlob[1], width, height).width = MaxFrame
  /\ RawBox(outputBlob[1], width, height).height = 1
  /\ results[1].location.width = TruncDiv(BbEnlargeNum * MaxFrame, BbEnlargeDen)

\* ---------------------------------------------- specification of read()
\* A detector just constructed over any model file.
InitRead ==
  /\ Constructed(AllNetworks("FaceDetection"), AllNetworks("FacialLandmarksDetection"))
  /\ maxBatch = 1 /\ ~isBatchDynamic /\ ~isAsync
  /\ TimerConstructed

NextRead == Load_into

SpecRead == InitRead /\ [][NextRead]_vars

\* The model files C5 calls malformed.
MalformedMetadata(n) ==
  \/ n.inputs # 1
  \/ n.outputs # 1
  \/ kind = "FaceDetection" /\ (n.layerType # "DetectionOutput" \/ ~n.hasNumClasses)
  \/ kind = "FacialLandmarksDetection"
       /\ (n.layerType # "FullyConnected" \/ n.layerName # "align_fc3"
           \/ n.outNum # OutNum)

\* C5: on an enabled detector whose model file has not exactly one input or
\* one output, or whose output layer has the wrong type or name or out-size
\* or lacks num_classes, Load::into ends in a logic_error thrown by read();
\* and whenever read() throws, into has called read() once and nothing
\* after it, and net and plugin are as they were.
C5_MalformedMetadataThrows ==
  [][Load_into /\ pathToModel # "" =>
       /\ MalformedMetadata(network) => lastError' # "" /\ ~crashed'
       /\ lastError' # "" => calls' = <<"read">> /\ UNCHANGED <<net, plugin>>]_vars

C5_Witness ==
  /\ kind = "FacialLandmarksDetection" /\ lastOp = "into"
  /\ network.inputs = 1 /\ network.outputs = 1 /\ network.outNum # OutNum
  /\ lastError = "Facial Landmarks Estimation network output layer has invalid out-size"
  /\ net = "unloaded" /\ plugin = "none"

\* C7: FaceDetection::read rejects an output tensor that has not exactly 4
\* dimensions with the 'output dimensions not compatible' error and reads no
\* dimension the tensor does not have.
C7_WrongDimensionCountRejected ==
  /\ kind = "FaceDetection" /\ pathToModel # "" /\ lastOp = "into"
  /\ ~MalformedMetadata(network) /\ Len(network.dims) # 4
  => /\ lastError = "Face Detection network output dimensions not compatible shoulld be 4"
     /\ ~oob /\ ~crashed

\* ---------------------------------------------------- claims on the timer
\* The smoothed duration the claim gives for the durations ds (not empty):
\* the first one, and then 0.9 times the one before plus 0.1 times the next.
RECURSIVE Smoothed(_)
Smoothed(ds) ==
  IF Len(ds) = 1 THEN <<ds[1], 0>>
  ELSE LET before == Smoothed(SubSeq(ds, 1, Len(ds) - 1))
       IN  <<9 * before[1] + ds[Len(ds)] * Pow10(before[2]), before[2] + 1>>

\* num / 10^exp pairs that stand for the same number
SameNumber(a, b) == a[1] * Pow10(b[2]) = b[1] * Pow10(a[2])

====
